---------------------------- MODULE Spec2Model ----------------------------
(***************************************************************************)
(* A model of nxutils (src/nxutils/nxutils.py): the conversion of a        *)
(* networkx graph into plot arrays and plotly traces, and of a DiGraph     *)
(* into a rich Tree.                                                       *)
(*                                                                         *)
(* Floats are modelled as records: [fin |-> n] is the finite value n and   *)
(* NaN is the not-a-number value.  Coordinates are drawn from even         *)
(* integers, so that halving is exact.  A numpy array is a record with its *)
(* number of dimensions and its rows: np.array of an empty list is the     *)
(* one-dimensional array of shape (0,), np.array of a list of n >= 1       *)
(* points is the two-dimensional array of shape (n, 2).                    *)
(***************************************************************************)
EXTENDS Integers, Sequences, FiniteSets, TLC

VARIABLES
    g,             \* the graph handed to every call
    pos,           \* what layout_func(g) returns: node -> point
    trace_kwargs,  \* the caller's trace_kwargs object (a dict of dicts)
    op,            \* the function called last
    outcome,       \* "ok", or the exception the last call raised
    layout_called, \* whether the last call invoked layout_func
    ret,           \* what the last call returned (None when it raised)
    start,         \* diGraph_to_richTree: the argument n
    stack,         \* diGraph_to_richTree: the frames of the recursion
    tpc,           \* diGraph_to_richTree: "idle", "run", "done", "RecursionError"
    tree           \* diGraph_to_richTree: the Tree returned

plotvars == <<g, pos, trace_kwargs, op, outcome, layout_called, ret>>
treevars == <<start, stack, tpc, tree>>
vars == <<g, pos, trace_kwargs, op, outcome, layout_called, ret,
          start, stack, tpc, tree>>

---------------------------------------------------------------------------
(* Bounds and input sets.                                                  *)

(* The most edges a graph handed to the plotting functions has.            *)
MaxEdges == 3

(* The depth at which the interpreter ends a recursion with RecursionError *)
(* (sys.getrecursionlimit(), scaled down).                                 *)
MaxDepth == 6

NodeSeq == <<"A", "B">>

Nodes == {NodeSeq[i] : i \in 1..Len(NodeSeq)}

Coords == {0, 2}

TreeNodeSeq == <<"A", "B", "C", "D">>

(* The edges a DiGraph handed to diGraph_to_richTree is built from, in the *)
(* order they are added: a diamond, and two edges back to an ancestor.     *)
TreeEdgeSeq ==
    << <<"A", "B">>, <<"A", "C">>, <<"B", "D">>, <<"C", "D">>,
       <<"D", "B">>, <<"C", "A">> >>

---------------------------------------------------------------------------
(* Floats and numpy arrays.                                                *)

NaN == [nan |-> TRUE]

Fin(n) == [fin |-> n]

IsNaN(x) == "nan" \in DOMAIN x

IsFinite(x) == "fin" \in DOMAIN x

FAdd(x, y) == IF IsNaN(x) \/ IsNaN(y) THEN NaN ELSE Fin(x.fin + y.fin)

FSub(x, y) == IF IsNaN(x) \/ IsNaN(y) THEN NaN ELSE Fin(x.fin - y.fin)

FHalf(x) == IF IsNaN(x) THEN NaN ELSE Fin(x.fin \div 2)

None == [none |-> TRUE]

IsNone(x) == "none" \in DOMAIN x

Point(x, y) == <<Fin(x), Fin(y)>>

NaNRow == <<NaN, NaN>>

Points == {Point(x, y) : x \in Coords, y \in Coords}

Layouts == [Nodes -> Points]

NpArray(a) == [ndim |-> IF Len(a) = 0 THEN 1 ELSE 2, rows |-> a]

(* a[k::3] and friends: the rows at the 0-based indexes k, k+step, ...    *)
Stride(rows, k, step) ==
    LET n == IF Len(rows) > k THEN (Len(rows) - k + step - 1) \div step ELSE 0
    IN [i \in 1..n |-> rows[k + (i - 1) * step + 1]]

(* The 0-based indexes that slice(lo, hi, step) selects in an axis of     *)
(* length N (slice.indices), for a step > 0, lo >= 0 and hi < 0.          *)
SliceIndices(lo, hi, step, N) ==
    LET first == IF lo > N THEN N ELSE lo
        stop  == IF hi + N < 0 THEN 0 ELSE hi + N
    IN {i \in first..(stop - 1) : (i - first) % step = 0}

RECURSIVE InsertRows(_, _, _, _)
InsertRows(rows, idx, row, j) ==
    IF j > Len(rows) THEN <<>>
    ELSE (IF (j - 1) \in idx THEN <<row>> ELSE <<>>)
         \o <<rows[j]>> \o InsertRows(rows, idx, row, j + 1)

(* np.insert(arr, indices, values, axis=0) for values of shape (2,): the  *)
(* values are broadcast to the rows indexed; against a one-dimensional    *)
(* array that needs as many indexes as values, else a ValueError.         *)
NpInsert(arr, idx, row) ==
    IF arr.ndim = 1 /\ Cardinality(idx) # Len(row)
    THEN [outcome |-> "ValueError", arr |-> None]
    ELSE [outcome |-> "ok",
          arr |-> [ndim |-> arr.ndim, rows |-> InsertRows(arr.rows, idx, row, 1)]]

(* Elementwise a (+) b on two arrays of points, with numpy's broadcast of *)
(* a single row; other length mismatches are a ValueError.                *)
Broadcastable(a, b) == Len(a) = Len(b) \/ Len(a) = 1 \/ Len(b) = 1

BroadcastLen(a, b) ==
    IF Len(a) = 0 \/ Len(b) = 0 THEN 0
    ELSE IF Len(a) > Len(b) THEN Len(a) ELSE Len(b)

BroadcastRow(a, i) == IF Len(a) = 1 THEN a[1] ELSE a[i]

AddRows(a, b) ==
    [i \in 1..BroadcastLen(a, b) |->
        <<FAdd(BroadcastRow(a, i)[1], BroadcastRow(b, i)[1]),
          FAdd(BroadcastRow(a, i)[2], BroadcastRow(b, i)[2])>>]

SubRows(a, b) ==
    [i \in 1..BroadcastLen(a, b) |->
        <<FSub(BroadcastRow(a, i)[1], BroadcastRow(b, i)[1]),
          FSub(BroadcastRow(a, i)[2], BroadcastRow(b, i)[2])>>]

HalfRows(a) == [i \in 1..Len(a) |-> <<FHalf(a[i][1]), FHalf(a[i][2])>>]

Column(rows, c) == [i \in 1..Len(rows) |-> rows[i][c]]

(* np.arctan2(y, x) * (180 / np.pi) on the directions the coordinates     *)
(* give: an axis, a diagonal, or the zero vector.                         *)
Arctan2Deg(y, x) ==
    IF IsNaN(y) \/ IsNaN(x) THEN NaN
    ELSE LET a == y.fin
             b == x.fin
         IN CASE a = 0 /\ b >= 0 -> Fin(0)
              [] a = 0 /\ b < 0  -> Fin(180)
              [] a > 0 /\ b = 0  -> Fin(90)
              [] a < 0 /\ b = 0  -> Fin(-90)
              [] a > 0 /\ b > 0  -> Fin(45)
              [] a > 0 /\ b < 0  -> Fin(135)
              [] a < 0 /\ b > 0  -> Fin(-45)
              [] a < 0 /\ b < 0  -> Fin(-135)

---------------------------------------------------------------------------
(* Graphs: the networkx boundary.                                          *)

Pairs == Nodes \X Nodes

EdgeSeqs == UNION {[1..n -> Pairs] : n \in 0..MaxEdges}

Rev(e) == <<e[2], e[1]>>

(* A Graph or DiGraph holds an edge once; an undirected one in one         *)
(* orientation only.  A MultiGraph or MultiDiGraph may hold parallel edges.*)
SimpleEdges(directed, s) ==
    \A i, j \in 1..Len(s) :
        i < j => s[i] # s[j] /\ (~directed => s[i] # Rev(s[j]))

Graphs ==
    {gr \in [directed : BOOLEAN, multi : BOOLEAN, nodes : {NodeSeq},
             edges : EdgeSeqs] :
        gr.multi \/ SimpleEdges(gr.directed, gr.edges)}

Parallel(gr, e, f) == e = f \/ (~gr.directed /\ e = Rev(f))

EdgeKey(gr, i) ==
    Cardinality({j \in 1..(i - 1) : Parallel(gr, gr.edges[j], gr.edges[i])})

(* g.edges(): (u, v) pairs, parallel edges of a multigraph repeated.       *)
EdgesCall(gr) == gr.edges

(* Iterating g.edges: (u, v) pairs, or (u, v, key) triples of a multigraph.*)
EdgesView(gr) ==
    [i \in 1..Len(gr.edges) |->
        IF gr.multi THEN gr.edges[i] \o <<EdgeKey(gr, i)>> ELSE gr.edges[i]]

---------------------------------------------------------------------------
(* Python dicts that keep insertion order: a sequence of <<key, value>>.   *)

DictKeys(d) == [i \in 1..Len(d) |-> d[i][1]]

DictHas(d, k) == \E i \in 1..Len(d) : d[i][1] = k

DictSet(d, k, v) ==
    IF DictHas(d, k)
    THEN [i \in 1..Len(d) |-> IF d[i][1] = k THEN <<k, v>> ELSE d[i]]
    ELSE Append(d, <<k, v>>)

RECURSIVE DictOf(_)
DictOf(items) ==
    IF Len(items) = 0 THEN <<>>
    ELSE LET n == Len(items)
         IN DictSet(DictOf(SubSeq(items, 1, n - 1)), items[n][1], items[n][2])

---------------------------------------------------------------------------
(* The geometry functions.                                                 *)

edge_pos(edges, p) ==
    DictOf([i \in 1..Len(edges) |->
               <<edges[i], <<p[edges[i][1]], p[edges[i][2]]>> >>])

RECURSIVE EndpointList(_)
EndpointList(ep) ==
    IF Len(ep) = 0 THEN <<>>
    ELSE <<ep[1][2][1], ep[1][2][2]>> \o EndpointList(Tail(ep))

edge_pos_to_array(ep) == NpArray(EndpointList(ep))

separate_edges_after_each(edge_arr) ==
    LET r == NpInsert(edge_arr, SliceIndices(2, -1, 2, Len(edge_arr.rows)), NaNRow)
    IN IF r.outcome # "ok" THEN r
       ELSE [r EXCEPT !.arr.rows = Append(@, NaNRow)]

separate_edges(edge_arr) ==
    NpInsert(edge_arr, SliceIndices(2, -1, 2, Len(edge_arr.rows)), NaNRow)

MidAngle_y_first(mid_vector) ==
    [i \in 1..Len(mid_vector) |-> Arctan2Deg(mid_vector[i][2], mid_vector[i][1])]

MidAngle(mid_vector) ==
    [i \in 1..Len(mid_vector) |-> Arctan2Deg(mid_vector[i][1], mid_vector[i][2])]

EdgeStarts(edge_sep) == Stride(edge_sep.rows, 0, 3)

EdgeEnds_off_by_one(edge_sep) == Stride(edge_sep.rows, 2, 3)

EdgeEnds(edge_sep) == Stride(edge_sep.rows, 1, 3)

edge_sep_to_mid_data(gr, edge_sep) ==
    LET s == EdgeStarts(edge_sep)
        e == EdgeEnds(edge_sep)
    IN IF ~Broadcastable(s, e)
       THEN [outcome |-> "ValueError", mid_data |-> None]
       ELSE IF edge_sep.ndim = 1
       THEN [outcome |-> "IndexError", mid_data |-> None]
       ELSE [outcome |-> "ok",
             mid_data |->
                 [mid_pos   |-> AddRows(HalfRows(s), HalfRows(e)),
                  mid_angle |-> MidAngle(SubRows(e, s))]]

g_to_edge_array(gr, p) ==
    [outcome |-> "ok", layout_called |-> TRUE,
     ret |-> edge_pos_to_array(edge_pos(EdgesCall(gr), p))]

PosArray(gr, p) == NpArray([i \in 1..Len(gr.nodes) |-> p[gr.nodes[i]]])

g_to_plot_arrays(gr, p) ==
    LET sep == separate_edges(edge_pos_to_array(edge_pos(EdgesView(gr), p)))
        mid == IF gr.directed THEN edge_sep_to_mid_data(gr, sep.arr)
               ELSE [outcome |-> "ok", mid_data |-> None]
    IN IF sep.outcome # "ok"
       THEN [outcome |-> sep.outcome, layout_called |-> TRUE, ret |-> None]
       ELSE IF mid.outcome # "ok"
       THEN [outcome |-> mid.outcome, layout_called |-> TRUE, ret |-> None]
       ELSE [outcome |-> "ok", layout_called |-> TRUE,
             ret |-> [pos |-> PosArray(gr, p), edge_sep |-> sep.arr,
                      mid_data |-> mid.mid_data]]

---------------------------------------------------------------------------
(* g_to_traces.  A dict with string keys is a function on its keys.        *)

EmptyDict == [k \in {} |-> None]

DictWithout(d, k) == [x \in DOMAIN d \ {k} |-> d[x]]

DictUpdate(d, e) ==
    [x \in DOMAIN d \cup DOMAIN e |-> IF x \in DOMAIN e THEN e[x] ELSE d[x]]

TraceDefaults ==
    [nodes  |-> [name |-> "nodes", mode |-> "markers"],
     edges  |-> [name |-> "edges", mode |-> "lines"],
     arrows |-> [name |-> "arrows", mode |-> "markers",
                 marker |-> [size |-> 12, symbol |-> "arrow-wide",
                             color |-> "green"]]]

(* The configurations a caller passes as trace_kwargs.                     *)
KwargsChoices ==
    {EmptyDict,
     [nodes |-> [name |-> "n", mode |-> "markers"]],
     [edges |-> [name |-> "e", mode |-> "lines"]],
     [arrows |-> [name |-> "a", marker |-> [size |-> 8]]],
     [arrows |-> [name |-> "a", marker |-> [size |-> 8, angle |-> <<Fin(45)>>]]],
     [arrows |-> [name |-> "a", mode |-> "markers"]]}

ArrowsOnUndirected_unchecked(tk, gr) == FALSE

ArrowsOnUndirected(tk, gr) == "arrows" \in DOMAIN tk /\ ~gr.directed

MergeKwargs_caller_only(tk, gr) == tk

MergeKwargs(tk, gr) ==
    LET kw == IF ~gr.directed THEN DictWithout(TraceDefaults, "arrows")
              ELSE TraceDefaults
    IN DictUpdate(kw, tk)

Scatter(type, x, y, kwargs) ==
    [type |-> type, x |-> x, y |-> y, kwargs |-> kwargs]

(* Lines 129-136: the "arrows" entry of the merged configuration after the *)
(* angle was put into its marker.  With "arrows" among the caller's keys   *)
(* the entry, and its marker, are the caller's own objects.                *)
ArrowsEntry(kw, mid_angle) ==
    IF "angle" \in DOMAIN kw["arrows"]["marker"] THEN kw["arrows"]
    ELSE [kw["arrows"] EXCEPT
             !["marker"] = DictUpdate(@, [angle |-> mid_angle])]

Traces(kw, pa) ==
    [k \in DOMAIN kw \cap {"nodes", "edges", "arrows"} |->
        CASE k = "nodes" ->
                 Scatter("Scatter", Column(pa.pos.rows, 1),
                         Column(pa.pos.rows, 2), kw["nodes"])
          [] k = "edges" ->
                 Scatter("Scatter", Column(pa.edge_sep.rows, 1),
                         Column(pa.edge_sep.rows, 2), kw["edges"])
          [] k = "arrows" ->
                 Scatter("Scattergl", Column(pa.mid_data.mid_pos, 1),
                         Column(pa.mid_data.mid_pos, 2),
                         ArrowsEntry(kw, pa.mid_data.mid_angle))]

(* The result carries, as caller, the caller's trace_kwargs object as the  *)
(* call leaves it.                                                         *)
g_to_traces(gr, tk, p) ==
    IF ArrowsOnUndirected(tk, gr)
    THEN [outcome |-> "TypeError", layout_called |-> FALSE, ret |-> None,
          caller |-> tk]
    ELSE
    LET kw == MergeKwargs(tk, gr)
        pa == g_to_plot_arrays(gr, p)
        Raise(e) == [outcome |-> e, layout_called |-> TRUE, ret |-> None,
                     caller |-> tk]
    IN IF pa.outcome # "ok" THEN Raise(pa.outcome)
       ELSE IF "nodes" \in DOMAIN kw /\ pa.ret.pos.ndim = 1
       THEN Raise("IndexError")
       ELSE IF "edges" \in DOMAIN kw /\ pa.ret.edge_sep.ndim = 1
       THEN Raise("IndexError")
       ELSE IF "arrows" \in DOMAIN kw /\ IsNone(pa.ret.mid_data)
       THEN Raise("TypeError")
       ELSE IF "arrows" \in DOMAIN kw /\ "marker" \notin DOMAIN kw["arrows"]
       THEN Raise("KeyError")
       ELSE [outcome |-> "ok", layout_called |-> TRUE,
             ret |-> Traces(kw, pa.ret),
             caller |->
                 IF "arrows" \in DOMAIN tk
                 THEN [tk EXCEPT
                          !["arrows"] = ArrowsEntry(kw, pa.ret.mid_data.mid_angle)]
                 ELSE tk]

---------------------------------------------------------------------------
(* The calls of the plotting functions on one graph and one layout.        *)

TreeIdle ==
    /\ start = "None"
    /\ stack = <<>>
    /\ tpc = "idle"
    /\ tree = None

NoCallYet ==
    /\ op = "none"
    /\ outcome = "none"
    /\ layout_called = FALSE
    /\ ret = None

Init ==
    /\ g \in Graphs
    /\ pos \in Layouts
    /\ trace_kwargs = EmptyDict
    /\ NoCallYet
    /\ TreeIdle

TraceInit ==
    /\ g \in Graphs
    /\ pos \in Layouts
    /\ trace_kwargs \in KwargsChoices
    /\ NoCallYet
    /\ TreeIdle

Returned(name, r) ==
    /\ op' = name
    /\ outcome' = r.outcome
    /\ layout_called' = r.layout_called
    /\ ret' = r.ret

GToEdgeArray ==
    /\ Returned("g_to_edge_array", g_to_edge_array(g, pos))
    /\ UNCHANGED <<g, pos, trace_kwargs, treevars>>

GToPlotArrays ==
    /\ Returned("g_to_plot_arrays", g_to_plot_arrays(g, pos))
    /\ UNCHANGED <<g, pos, trace_kwargs, treevars>>

GToTraces ==
    /\ LET r == g_to_traces(g, trace_kwargs, pos)
       IN /\ Returned("g_to_traces", r)
          /\ trace_kwargs' = r.caller
    /\ UNCHANGED <<g, pos, treevars>>

Next == GToEdgeArray \/ GToPlotArrays

Spec == Init /\ [][Next]_vars

TraceNext == GToTraces

TraceSpec == TraceInit /\ [][TraceNext]_vars

---------------------------------------------------------------------------
(* diGraph_to_richTree, a frame of the recursion at a time.                *)

RECURSIVE SubSeqOf(_, _, _)
SubSeqOf(s, keep, i) ==
    IF i > Len(s) THEN <<>>
    ELSE (IF i \in keep THEN <<s[i]>> ELSE <<>>) \o SubSeqOf(s, keep, i + 1)

TreeGraphs ==
    {[directed |-> TRUE, multi |-> FALSE, nodes |-> TreeNodeSeq,
      edges |-> SubSeqOf(TreeEdgeSeq, keep, 1)] :
        keep \in SUBSET (1..Len(TreeEdgeSeq))}

NodeSet(gr) == {gr.nodes[i] : i \in 1..Len(gr.nodes)}

(* g.adj[n]: the successors of n, in the order their edges were added.     *)
Adj(gr, n) ==
    LET from == {i \in 1..Len(gr.edges) : gr.edges[i][1] = n}
        out  == SubSeqOf(gr.edges, from, 1)
    IN [i \in 1..Len(out) |-> out[i][2]]

(* g.pred[n]                                                               *)
Pred(gr, n) == {gr.edges[i][1] : i \in {j \in 1..Len(gr.edges) : gr.edges[j][2] = n}}

(* [node for node in g if len(g.pred[node]) == 0]                          *)
ForestRoots(gr) ==
    LET roots == {i \in 1..Len(gr.nodes) : Pred(gr, gr.nodes[i]) = {}}
    IN SubSeqOf(gr.nodes, roots, 1)

(* The default label_func: str(n).                                         *)
label_func(gr, n) == n

RootLabel == "Root"

(* rich's Tree(label): a node and its children.  Tree.add(x) appends the   *)
(* node Tree(x): x is a string, or a Tree, which is then the renderable    *)
(* label of the node added.                                                *)
TextNode(label) == [text |-> label, children |-> <<>>]

TreeNode(subtree) == [renderable |-> subtree, children |-> <<>>]

TreeAdd(t, node) == [t EXCEPT !.children = Append(@, node)]

Frame(n, nbrs, t) == [n |-> n, nbrs |-> nbrs, tree |-> t]

Top == stack[Len(stack)]

SetTop(f) == [stack EXCEPT ![Len(stack)] = f]

(* Lines 243-248 of the outermost call.                                    *)
FirstFrame(gr, n) ==
    IF n = "None" THEN Frame(n, ForestRoots(gr), TextNode(RootLabel))
    ELSE Frame(n, Adj(gr, n), TextNode(label_func(gr, n)))

(* Line 251: whether the loop recurses into nb.                            *)
Recurses(gr, nb) == Len(Adj(gr, nb)) > 0

TreeInit ==
    /\ g \in TreeGraphs
    /\ start \in NodeSet(g) \cup {"None"}
    /\ stack = <<>>
    /\ tpc = "idle"
    /\ tree = None
    /\ pos = [n \in NodeSet(g) |-> Point(0, 0)]
    /\ trace_kwargs = EmptyDict
    /\ NoCallYet

Call ==
    /\ tpc = "idle"
    /\ tpc' = "run"
    /\ stack' = <<FirstFrame(g, start)>>
    /\ UNCHANGED <<start, tree, plotvars>>

(* Line 254: tree.add(label_func(g, nb))                                   *)
AddLeaf ==
    /\ tpc = "run"
    /\ Len(Top.nbrs) > 0
    /\ ~Recurses(g, Head(Top.nbrs))
    /\ stack' = SetTop(Frame(Top.n, Tail(Top.nbrs),
                             TreeAdd(Top.tree, TextNode(label_func(g, Head(Top.nbrs))))))
    /\ UNCHANGED <<start, tpc, tree, plotvars>>

(* Line 252: the recursive call on nb, within the interpreter's limit.     *)
Recurse ==
    /\ tpc = "run"
    /\ Len(Top.nbrs) > 0
    /\ Recurses(g, Head(Top.nbrs))
    /\ Len(stack) < MaxDepth
    /\ LET nb == Head(Top.nbrs)
       IN stack' = Append(stack, Frame(nb, Adj(g, nb), TextNode(label_func(g, nb))))
    /\ UNCHANGED <<start, tpc, tree, plotvars>>

(* Line 252 at the limit of the interpreter's stack: RecursionError.       *)
Overflow ==
    /\ tpc = "run"
    /\ Len(Top.nbrs) > 0
    /\ Recurses(g, Head(Top.nbrs))
    /\ Len(stack) >= MaxDepth
    /\ tpc' = "RecursionError"
    /\ UNCHANGED <<start, stack, tree, plotvars>>

(* Line 255 of a recursive call, and line 252's tree.add of its result.    *)
Return ==
    /\ tpc = "run"
    /\ Len(Top.nbrs) = 0
    /\ Len(stack) > 1
    /\ LET caller == stack[Len(stack) - 1]
       IN stack' = Append(SubSeq(stack, 1, Len(stack) - 2),
                          Frame(caller.n, Tail(caller.nbrs),
                                TreeAdd(caller.tree, TreeNode(Top.tree))))
    /\ UNCHANGED <<start, tpc, tree, plotvars>>

(* Line 255 of the outermost call.                                         *)
Finish ==
    /\ tpc = "run"
    /\ Len(Top.nbrs) = 0
    /\ Len(stack) = 1
    /\ tree' = Top.tree
    /\ stack' = <<>>
    /\ tpc' = "done"
    /\ UNCHANGED <<start, plotvars>>

TreeNext == Call \/ AddLeaf \/ Recurse \/ Overflow \/ Return \/ Finish

TreeSpec == TreeInit /\ [][TreeNext]_vars

---------------------------------------------------------------------------
(* The claims.                                                             *)

E == Len(g.edges)

Plotted == op = "g_to_plot_arrays" /\ outcome = "ok"

(* The positions of the source and the target of the k-th edge.            *)
StartOf(k) == pos[g.edges[k][1]]

EndOf(k) == pos[g.edges[k][2]]

Dx(k) == EndOf(k)[1].fin - StartOf(k)[1].fin

Dy(k) == EndOf(k)[2].fin - StartOf(k)[2].fin

(* Row i (0-based) of the edge line geometry returned.                     *)
SepRow(i) == ret.edge_sep.rows[i + 1]

FiniteRow(r) == IsFinite(r[1]) /\ IsFinite(r[2])

BreakRow(r) == IsNaN(r[1]) /\ IsNaN(r[2])

(* C1, as stated: the edge line geometry g_to_plot_arrays returns for a    *)
(* graph with E edges has 3*E rows, a break row at every index i with      *)
(* i % 3 = 2, one after the last edge included, and finite rows elsewhere. *)
C1_ThreeRowsPerEdge ==
    Plotted =>
        /\ Len(ret.edge_sep.rows) = 3 * E
        /\ \A i \in 0..(3 * E - 1) :
               IF i % 3 = 2 THEN BreakRow(SepRow(i)) ELSE FiniteRow(SepRow(i))

(* C1, amended: for a graph with E >= 1 edges g_to_plot_arrays returns,    *)
(* and the edge line geometry it returns has 3*E - 1 rows: a break row at  *)
(* every index i with i % 3 = 2, none after the last edge, and finite rows *)
(* elsewhere.                                                              *)
C1_BreakBetweenEdges ==
    (op = "g_to_plot_arrays" /\ E >= 1) =>
        /\ outcome = "ok"
        /\ Len(ret.edge_sep.rows) = 3 * E - 1
        /\ \A i \in 0..(3 * E - 2) :
               IF i % 3 = 2 THEN BreakRow(SepRow(i)) ELSE FiniteRow(SepRow(i))

C1_Witness ==
    /\ Plotted
    /\ E >= 3
    /\ BreakRow(SepRow(2))
    /\ BreakRow(SepRow(5))
    /\ FiniteRow(SepRow(3 * E - 2))

(* C5: on a graph with no edge g_to_plot_arrays raises nothing and every   *)
(* array of edge geometry it returns is empty.                             *)
C5_NoEdgesNoError ==
    (op = "g_to_plot_arrays" /\ E = 0) =>
        /\ outcome = "ok"
        /\ Len(ret.edge_sep.rows) = 0
        /\ (g.directed => Len(ret.mid_data.mid_pos) = 0)

(* C7: for a directed graph with E >= 1 edges g_to_plot_arrays returns E   *)
(* midpoints, the k-th one halfway between the positions of the source and *)
(* the target of the k-th edge.                                            *)
C7_Midpoints ==
    (op = "g_to_plot_arrays" /\ g.directed /\ E >= 1) =>
        /\ outcome = "ok"
        /\ Len(ret.mid_data.mid_pos) = E
        /\ \A k \in 1..E : \A c \in 1..2 :
               /\ IsFinite(ret.mid_data.mid_pos[k][c])
               /\ 2 * ret.mid_data.mid_pos[k][c].fin
                      = StartOf(k)[c].fin + EndOf(k)[c].fin

C7_Witness ==
    /\ Plotted
    /\ g.directed
    /\ E >= 3
    /\ \E j, k \in 1..E : ret.mid_data.mid_pos[j] # ret.mid_data.mid_pos[k]
    /\ \E k \in 1..E : ret.mid_data.mid_pos[k] = Point(1, 1)

(* C9: the array g_to_edge_array builds from an edge sequence of length n, *)
(* pairs repeated or not, has 2*n rows, the 2k-th and 2k+1-th of them      *)
(* (0-based) the positions of the source and the target of the k-th edge.  *)
C9_TwoRowsPerEdge ==
    op = "g_to_edge_array" =>
        /\ outcome = "ok"
        /\ Len(ret.rows) = 2 * E
        /\ \A k \in 1..E :
               ret.rows[2 * k - 1] = StartOf(k) /\ ret.rows[2 * k] = EndOf(k)

AngleOf(k) == ret.mid_data.mid_angle[k]

(* C10, as stated: the angle of every edge is arctan2 of the vertical      *)
(* component first and the horizontal second, in degrees: 0 along +x, 90   *)
(* along +y, 180 along -x, -90 along -y.                                   *)
C10_AngleVerticalFirst ==
    (Plotted /\ g.directed) =>
        \A k \in 1..E :
            /\ AngleOf(k) = Arctan2Deg(Fin(Dy(k)), Fin(Dx(k)))
            /\ (Dx(k) > 0 /\ Dy(k) = 0) => AngleOf(k) = Fin(0)
            /\ (Dx(k) = 0 /\ Dy(k) > 0) => AngleOf(k) = Fin(90)
            /\ (Dx(k) < 0 /\ Dy(k) = 0) => AngleOf(k) = Fin(180)
            /\ (Dx(k) = 0 /\ Dy(k) < 0) => AngleOf(k) = Fin(-90)

(* C10, amended: the angle of every edge is arctan2 of the horizontal      *)
(* component first and the vertical second, in degrees: 90 along +x, 0     *)
(* along +y, -90 along -x, 180 along -y.                                   *)
C10_AngleHorizontalFirst ==
    (Plotted /\ g.directed) =>
        /\ Len(ret.mid_data.mid_angle) = E
        /\ \A k \in 1..E :
            /\ AngleOf(k) = Arctan2Deg(Fin(Dx(k)), Fin(Dy(k)))
            /\ (Dx(k) > 0 /\ Dy(k) = 0) => AngleOf(k) = Fin(90)
            /\ (Dx(k) = 0 /\ Dy(k) > 0) => AngleOf(k) = Fin(0)
            /\ (Dx(k) < 0 /\ Dy(k) = 0) => AngleOf(k) = Fin(-90)
            /\ (Dx(k) = 0 /\ Dy(k) < 0) => AngleOf(k) = Fin(180)

C10_Witness ==
    /\ Plotted
    /\ g.directed
    /\ E >= 2
    /\ \E k \in 1..E : Dx(k) > 0 /\ Dy(k) = 0 /\ AngleOf(k) = Fin(90)
    /\ \E k \in 1..E : Dx(k) < 0 /\ Dy(k) = 0 /\ AngleOf(k) = Fin(-90)

TraceNames == {"nodes", "edges", "arrows"}

Traced == op = "g_to_traces" /\ outcome = "ok"

(* C4: g_to_traces on an undirected graph with "arrows" among the keys of  *)
(* trace_kwargs raises before it calls the layout function and returns no  *)
(* trace.                                                                  *)
C4_ArrowsRejectedFirst ==
    (op = "g_to_traces" /\ ~g.directed /\ "arrows" \in DOMAIN trace_kwargs) =>
        /\ outcome = "TypeError"
        /\ ~layout_called
        /\ IsNone(ret)

C4_Witness ==
    /\ op = "g_to_traces"
    /\ ~g.directed
    /\ E >= 1
    /\ "arrows" \in DOMAIN trace_kwargs
    /\ outcome = "TypeError"

(* C6, as stated: the traces g_to_traces returns are those the caller's    *)
(* trace_kwargs names.                                                     *)
C6_TracesAsListed ==
    Traced =>
        \A name \in TraceNames :
            name \in DOMAIN ret <=> name \in DOMAIN trace_kwargs

(* C6, amended: whenever g_to_traces returns, it returns the "nodes" and   *)
(* the "edges" trace, and the "arrows" trace exactly for a directed graph, *)
(* whichever of them the caller's trace_kwargs names.                      *)
C6_TracesOfDefaults ==
    Traced =>
        DOMAIN ret = {"nodes", "edges"} \cup
                         (IF g.directed THEN {"arrows"} ELSE {})

C6_Witness ==
    /\ Traced
    /\ g.directed
    /\ DOMAIN trace_kwargs = {"nodes"}
    /\ DOMAIN ret = TraceNames

(* C8: no call of g_to_traces changes the caller's trace_kwargs, at any    *)
(* depth.                                                                  *)
C8_CallerKwargsUntouched == [][trace_kwargs' = trace_kwargs]_vars

---------------------------------------------------------------------------
(* The Tree returned.                                                      *)

RECURSIVE Occurrences(_, _)
(* How many nodes of the tree t are labelled with the graph node v.        *)
Occurrences(t, v) ==
    LET SumOver(ch) ==
            LET RECURSIVE S(_)
                S(i) == IF i > Len(ch) THEN 0 ELSE Occurrences(ch[i], v) + S(i + 1)
            IN S(1)
    IN IF "renderable" \in DOMAIN t
       THEN Occurrences(t.renderable, v) + SumOver(t.children)
       ELSE (IF t.text = v THEN 1 ELSE 0) + SumOver(t.children)

(* The tree nodes made for graph nodes so far, a frame's tree at a time.   *)
Visits ==
    LET RECURSIVE F(_, _)
        F(i, v) == IF i > Len(stack) THEN 0
                   ELSE Occurrences(stack[i].tree, v) + F(i + 1, v)
        RECURSIVE Sum(_)
        Sum(i) == IF i > Len(g.nodes) THEN 0
                  ELSE F(1, g.nodes[i]) + Sum(i + 1)
    IN Sum(1)

(* The nodes the walk starts from, and those reachable from them.          *)
StartSet ==
    IF start = "None"
    THEN {ForestRoots(g)[i] : i \in 1..Len(ForestRoots(g))}
    ELSE {start}

Succ(S) == S \cup {e[2] : e \in {g.edges[i] : i \in {j \in 1..Len(g.edges) : g.edges[j][1] \in S}}}

RECURSIVE Closure(_)
Closure(S) == IF Succ(S) = S THEN S ELSE Closure(Succ(S))

Reachable == Closure(StartSet)

(* C2: the tree returned holds no graph node twice: it holds each node     *)
(* reachable from the start once, and no other.                            *)
C2_EachNodeOnce ==
    tpc = "done" =>
        \A v \in NodeSet(g) :
            Occurrences(tree, v) = IF v \in Reachable THEN 1 ELSE 0

(* C3: the call does not run out of stack, and it visits no more nodes     *)
(* than the graph has.                                                     *)
C3_TerminatesWithinNodes ==
    /\ tpc # "RecursionError"
    /\ tpc = "run" => Visits <= Len(g.nodes)

=============================================================================
